---- MODULE Spec2Model ----
(***************************************************************************)
(* Model of the bridge credential acquisition flow of the openhue          *)
(* Terraform provider: config.GetAuthConfig and the pairing loop           *)
(* authenticateWithBridgeIp (src/unnamed/part_001).                        *)
(*                                                                         *)
(* The viper configuration registry is modelled by what the calls made in  *)
(* GetAuthConfig do: a registry has an override layer (Set), an            *)
(* environment layer (AutomaticEnv), a config-file layer (ReadInConfig)    *)
(* and a default layer (SetDefault); a lookup takes the first layer that   *)
(* holds the key, in that order.                                           *)
(***************************************************************************)
EXTENDS Integers, Sequences, FiniteSets, TLC

(* ---------------------------------------------------------------------- *)
(* Bounds                                                                  *)
(* ---------------------------------------------------------------------- *)

\* Number of 500ms ticker periods that make up the one minute deadline of
\* the pairing loop (120 in the program), scaled down.
DeadlineTicks == 3

(* ---------------------------------------------------------------------- *)
(* Value domains                                                           *)
(* ---------------------------------------------------------------------- *)

KeyIp == "hue_bridge_ip"

KeyApiKey == "hue_bridge_api_key"

Keys == {KeyIp, KeyApiKey}

\* The sentinel of the bridge address input that forces discovery.
Discover == "discover"

\* Invocations of GetAuthConfig: one in the sequential specification.
SeqCalls == {1}

Calls == {1, 2}

\* Values of the provider's bridge_ip / bridge_api_key attributes.
TfBridgeIps == {"", Discover, "10.0.0.1"}

TfBridgeApiKeys == {"", "key-tf"}

\* Values of the HUE_BRIDGE_IP / HUE_BRIDGE_API_KEY environment variables
\* ("" is an unset or empty variable).
EnvBridgeIps == {"", Discover, "10.0.0.2"}

EnvBridgeApiKeys == {"", "key-env"}

\* Values found in the cache file.
CachedBridgeIps == {Discover, "10.0.0.3"}

CachedBridgeApiKeys == {"key-cache"}

\* Address reported by a successful discovery.
DiscoveredIps == {"10.0.0.4"}

\* API keys the bridge issues once the link button is pressed.
IssuedApiKeys == {"key-bridge", "key-bridge-2"}

(* ---------------------------------------------------------------------- *)
(* Partial maps from keys to strings (one layer of a viper registry, or    *)
(* the JSON object of the cache file)                                      *)
(* ---------------------------------------------------------------------- *)

EmptyMap == [k \in {} |-> ""]

MapSet(m, key, value) ==
    [k \in (DOMAIN m) \cup {key} |-> IF k = key THEN value ELSE m[k]]

\* All JSON objects the cache file may hold: each key is missing or has one
\* of the cached values.
CacheContents ==
    { [k \in D |-> IF k = KeyIp THEN ip ELSE key] :
        D \in SUBSET Keys, ip \in CachedBridgeIps, key \in CachedBridgeApiKeys }

NoFile == [exists |-> FALSE, readable |-> FALSE, data |-> EmptyMap]

VARIABLES
    env,            \* process environment: [Keys -> string]
    homeOk,         \* os.UserHomeDir() succeeds
    cacheFile,      \* {home}/.openhue-credentials.json
    writable,       \* the cache file can be created in the home directory
    viperDefaults,  \* default layer of the process-wide viper registry
    pc,             \* position of each GetAuthConfig invocation
    tfBridgeIp, tfBridgeApiKey, useCache,   \* its arguments
    ctxCancelled,   \* its ctx is cancelled or past its deadline
    cfg,            \* its registry: [override, config]
    result,         \* what it returned: [cfg, err]
    discoverCount,  \* calls of Discover() it made
    discoveredIp,   \* address the discovery reported
    cacheAtLoad,    \* the cache file as it was when the invocation began
    saveErr,        \* outcome of SafeWriteConfigAs: "none", "ok", "failed"
    pairedIp,       \* address handed to authenticateWithBridgeIp
    wstate,         \* pairing loop: Idle, Polling, Paired, TimedOut, Failed
    now,            \* ticker periods elapsed since the loop was entered
    tick,           \* ticker.C: "none", "pending", "pendingAfterCancel"
    requests,       \* calls of Authenticate() made (saturating)
    answers,        \* the bridge's answers, in order (the first DeadlineTicks + 1)
    onlyRetries,    \* every answer so far was "not yet authorized"
    lastAns,        \* the bridge's latest answer
    wKey, wErr,     \* what authenticateWithBridgeIp returned
    client,         \* the client field of Room, Light and LightDataSource
    call,           \* the handler the framework invoked last, with its inputs
    resp,           \* what that handler did: diagnostics, requests, state
    crashed         \* the provider process died of a panic

envVars == <<env, homeOk, writable>>

callVars == <<pc, tfBridgeIp, tfBridgeApiKey, useCache, cfg, result,
              discoverCount, discoveredIp, cacheAtLoad, saveErr, pairedIp>>

waiterVars == <<wstate, now, tick, requests, answers, onlyRetries, lastAns,
                wKey, wErr>>

resourceVars == <<client, call, resp, crashed>>

authVars == <<env, homeOk, cacheFile, writable, viperDefaults, pc, tfBridgeIp,
              tfBridgeApiKey, useCache, ctxCancelled, cfg, result,
              discoverCount, discoveredIp, cacheAtLoad, saveErr, pairedIp,
              wstate, now, tick, requests, answers, onlyRetries, lastAns,
              wKey, wErr>>

vars == <<authVars, resourceVars>>

(* ---------------------------------------------------------------------- *)
(* Resources and data sources as the framework creates them                *)
(* ---------------------------------------------------------------------- *)

\* NewRoom, NewLight, NewLightDataSource
Components == {"Room", "Light", "LightDataSource"}

NoCall == [component |-> "none", operation |-> "none", input |-> <<>>,
           responses |-> <<>>]

\* A fresh response object: no diagnostics, no request made, no state set.
NoResp == [diagnostics |-> <<>>, sent |-> <<>>, state |-> <<>>,
           panicked |-> FALSE]

\* &Room{}, &Light{}, &LightDataSource{}: the client field is nil.
ResourcesInit ==
    /\ client = [k \in Components |-> "nil"]
    /\ call = NoCall
    /\ resp = NoResp
    /\ crashed = FALSE

(* ---------------------------------------------------------------------- *)
(* viper                                                                   *)
(* ---------------------------------------------------------------------- *)

\* cfg.GetString(key) on the registry made by viper.New(): the override
\* layer, then the environment (AutomaticEnv; an empty variable counts as
\* unset), then the config file. The registry has no defaults of its own:
\* the SetDefault calls of GetAuthConfig go to the process-wide registry.
GetString(c, key) ==
    IF key \in DOMAIN c.override THEN c.override[key]
    ELSE IF env[key] # "" THEN env[key]
    ELSE IF key \in DOMAIN c.config THEN c.config[key]
    ELSE ""

\* Set changed: the value is not stored.
Set_Dropped(c, key, value) == c

\* cfg.Set(key, value)
Set(c, key, value) == [c EXCEPT !.override = MapSet(c.override, key, value)]

\* ReadInConfig changed: the cache file is never read.
ReadInConfig_FileIgnored(configFileSet, file) == EmptyMap

\* ReadInConfig changed: the cache file is read whether or not caching is on.
ReadInConfig_AlwaysRead(configFileSet, file) ==
    IF file.exists /\ file.readable THEN file.data ELSE EmptyMap

\* cfg.ReadInConfig() after cfg.SetConfigFile(path): the keys of the file;
\* nothing when no file was set, the file is missing or cannot be parsed.
ReadInConfig(configFileSet, file) ==
    IF configFileSet /\ file.exists /\ file.readable THEN file.data ELSE EmptyMap

\* cfg.AllSettings(): the keys held by the override, config and default
\* layers (a variable seen only through AutomaticEnv is not a key), each
\* with the value a lookup gives.
AllSettings(c) ==
    [k \in (DOMAIN c.override) \cup (DOMAIN c.config) |-> GetString(c, k)]

NilAuthConfig == [BridgeIp |-> "", BridgeApiKey |-> ""]

NoAnswer == [apiKey |-> "", retry |-> FALSE, err |-> "none"]

Init ==
    /\ env \in [Keys -> EnvBridgeIps \cup EnvBridgeApiKeys]
    /\ env[KeyIp] \in EnvBridgeIps
    /\ env[KeyApiKey] \in EnvBridgeApiKeys
    /\ homeOk \in BOOLEAN
    /\ writable \in BOOLEAN
    /\ cacheFile \in {NoFile}
          \cup {[exists |-> TRUE, readable |-> FALSE, data |-> EmptyMap]}
          \cup {[exists |-> TRUE, readable |-> TRUE, data |-> d] : d \in CacheContents}
    \* the cache file lives in the home directory
    /\ homeOk = FALSE => cacheFile = NoFile /\ writable = FALSE
    /\ viperDefaults = EmptyMap
    /\ pc = [c \in Calls |-> "start"]
    /\ tfBridgeIp = [c \in Calls |-> ""]
    /\ tfBridgeApiKey = [c \in Calls |-> ""]
    /\ useCache = [c \in Calls |-> FALSE]
    /\ ctxCancelled = [c \in Calls |-> FALSE]
    /\ cfg = [c \in Calls |-> [override |-> EmptyMap, config |-> EmptyMap]]
    /\ result = [c \in Calls |-> [cfg |-> NilAuthConfig, err |-> "none"]]
    /\ discoverCount = [c \in Calls |-> 0]
    /\ discoveredIp = [c \in Calls |-> ""]
    /\ cacheAtLoad = [c \in Calls |-> NoFile]
    /\ saveErr = [c \in Calls |-> "none"]
    /\ pairedIp = [c \in Calls |-> ""]
    /\ wstate = [c \in Calls |-> "Idle"]
    /\ now = [c \in Calls |-> 0]
    /\ tick = [c \in Calls |-> "none"]
    /\ requests = [c \in Calls |-> 0]
    /\ answers = [c \in Calls |-> <<>>]
    /\ onlyRetries = [c \in Calls |-> TRUE]
    /\ lastAns = [c \in Calls |-> NoAnswer]
    /\ wKey = [c \in Calls |-> ""]
    /\ wErr = [c \in Calls |-> "none"]
    /\ ResourcesInit

(* ---------------------------------------------------------------------- *)
(* GetAuthConfig                                                           *)
(* ---------------------------------------------------------------------- *)

\* return nil, fmt.Errorf(...)
Fail(c, e) ==
    /\ result' = [result EXCEPT ![c] = [cfg |-> NilAuthConfig, err |-> e]]
    /\ pc' = [pc EXCEPT ![c] = "done"]

\* Lines 26-43: the home directory, the registry, the defaults, the cache
\* file and the environment.
LoadConfig(c) ==
    /\ pc[c] = "start"
    /\ \E ip \in TfBridgeIps, key \in TfBridgeApiKeys, uc \in BOOLEAN :
        /\ tfBridgeIp' = [tfBridgeIp EXCEPT ![c] = ip]
        /\ tfBridgeApiKey' = [tfBridgeApiKey EXCEPT ![c] = key]
        /\ useCache' = [useCache EXCEPT ![c] = uc]
        /\ cacheAtLoad' = [cacheAtLoad EXCEPT ![c] = cacheFile]
        /\ IF ~homeOk
           THEN /\ Fail(c, "home")
                /\ UNCHANGED <<viperDefaults, cfg>>
           ELSE /\ viperDefaults' =
                     MapSet(MapSet(viperDefaults, KeyIp, ip), KeyApiKey, key)
                /\ cfg' = [cfg EXCEPT ![c] =
                     [override |-> EmptyMap,
                      config |-> ReadInConfig(uc, cacheFile)]]
                /\ pc' = [pc EXCEPT ![c] = "discover"]
                /\ UNCHANGED result
    /\ UNCHANGED <<envVars, resourceVars, cacheFile, ctxCancelled, discoverCount,
                   discoveredIp, saveErr, pairedIp, waiterVars>>

\* Lines 46-63: the bridge address, discovered when none is configured or
\* when the bridge_ip attribute is the sentinel.
ResolveBridgeIp(c) ==
    /\ pc[c] = "discover"
    /\ LET hueBridgeIp == GetString(cfg[c], KeyIp) IN
       IF hueBridgeIp = "" \/ tfBridgeIp[c] = Discover
       THEN /\ discoverCount' = [discoverCount EXCEPT ![c] = @ + 1]
            /\ \/ /\ Fail(c, "discover")
                  /\ UNCHANGED <<cfg, discoveredIp>>
               \/ \E ip \in DiscoveredIps :
                    /\ discoveredIp' = [discoveredIp EXCEPT ![c] = ip]
                    /\ cfg' = [cfg EXCEPT ![c] = Set(@, KeyIp, ip)]
                    /\ pc' = [pc EXCEPT ![c] = "apikey"]
                    /\ UNCHANGED result
       ELSE /\ pc' = [pc EXCEPT ![c] = "apikey"]
            /\ UNCHANGED <<cfg, result, discoverCount, discoveredIp>>
    /\ UNCHANGED <<envVars, resourceVars, cacheFile, viperDefaults, tfBridgeIp,
                   tfBridgeApiKey, useCache, ctxCancelled, cacheAtLoad,
                   saveErr, pairedIp, waiterVars>>

\* PairingAddress changed: the address read at line 46, before discovery.
PairingAddress_BeforeDiscovery(c) ==
    GetString([c EXCEPT !.override = EmptyMap], KeyIp)

\* Line 70: the address handed to authenticateWithBridgeIp.
PairingAddress(c) == GetString(c, KeyIp)

\* Lines 65-70 and 90-100: the API key; when none is configured the pairing
\* loop is entered with the address the registry holds. NewAuthenticator
\* may refuse the address.
ResolveApiKey(c) ==
    /\ pc[c] = "apikey"
    /\ LET hueBridgeApiKey == GetString(cfg[c], KeyApiKey) IN
       IF hueBridgeApiKey = ""
       THEN /\ pairedIp' = [pairedIp EXCEPT ![c] = PairingAddress(cfg[c])]
            /\ \/ /\ wstate' = [wstate EXCEPT ![c] = "Polling"]
                  /\ pc' = [pc EXCEPT ![c] = "select"]
                  /\ UNCHANGED wErr
               \/ /\ wstate' = [wstate EXCEPT ![c] = "Failed"]
                  /\ wErr' = [wErr EXCEPT ![c] = "failed to create authenticator"]
                  /\ pc' = [pc EXCEPT ![c] = "paired"]
       ELSE /\ pc' = [pc EXCEPT ![c] = "save"]
            /\ UNCHANGED <<pairedIp, wstate, wErr>>
    /\ UNCHANGED <<envVars, resourceVars, cacheFile, viperDefaults, tfBridgeIp,
                   tfBridgeApiKey, useCache, ctxCancelled, cfg, result,
                   discoverCount, discoveredIp, cacheAtLoad, saveErr,
                   now, tick, requests, answers, onlyRetries, lastAns, wKey>>

(* ---------------------------------------------------------------------- *)
(* authenticateWithBridgeIp                                                *)
(* ---------------------------------------------------------------------- *)

\* What authenticator.Authenticate() may return: (apiKey, retry, err).
RetryAnswer == [apiKey |-> "", retry |-> TRUE, err |-> "link button not pressed"]

FatalAnswers == {[apiKey |-> "", retry |-> FALSE, err |-> "bridge unreachable"]}

KeyAnswers == {[apiKey |-> k, retry |-> FALSE, err |-> "nil"] : k \in IssuedApiKeys}

BlankAnswer == [apiKey |-> "", retry |-> FALSE, err |-> "nil"]

BridgeAnswers == {RetryAnswer, BlankAnswer} \cup FatalAnswers \cup KeyAnswers

\* authenticateWithBridgeIpOnce changed: the retry flag is not looked at and
\* every error is returned.
authenticateWithBridgeIpOnce_RetryIsError(ans) ==
    IF ans.err # "nil" THEN [apiKey |-> "", err |-> ans.err]
    ELSE [apiKey |-> ans.apiKey, err |-> "nil"]

\* authenticateWithBridgeIpOnce changed: every error asks for a retry.
authenticateWithBridgeIpOnce_ErrorIsRetry(ans) ==
    IF ans.err # "nil" THEN [apiKey |-> "", err |-> "nil"]
    ELSE [apiKey |-> ans.apiKey, err |-> "nil"]

\* Lines 122-133.
authenticateWithBridgeIpOnce(ans) ==
    IF ans.err # "nil" /\ ans.retry THEN [apiKey |-> "", err |-> "nil"]
    ELSE IF ans.err # "nil" /\ ~ans.retry THEN [apiKey |-> "", err |-> ans.err]
    ELSE [apiKey |-> ans.apiKey, err |-> "nil"]

\* TimeoutCtxDone changed: the loop selects on ctx, without the one minute
\* timeout.
TimeoutCtxDone_NoDeadline(c) == ctxCancelled[c]

\* timeoutCtx.Done() is ready: the caller's ctx is done or the minute is over.
TimeoutCtxDone(c) == ctxCancelled[c] \/ now[c] >= DeadlineTicks

\* A counter that stops at DeadlineTicks + 1 ("more than fit in a minute").
Sat(n) == IF n <= DeadlineTicks THEN n + 1 ELSE n

\* A case of the select at line 105 is ready.
SelectReady(c) == TimeoutCtxDone(c) \/ tick[c] # "none"

\* The invocation is blocked, in the pairing request or in a select none of
\* whose cases is ready, so that time passes before its next step.
Blocked(c) == pc[c] = "auth" \/ (pc[c] = "select" /\ ~SelectReady(c))

\* Half a second passes while the loop is blocked: the ticker sends on
\* ticker.C, which holds one tick; a tick sent to a full channel is dropped.
AdvanceTime(c) ==
    /\ Blocked(c)
    /\ now' = [now EXCEPT ![c] = IF @ < DeadlineTicks THEN @ + 1 ELSE @]
    /\ tick' = [tick EXCEPT ![c] =
          IF @ # "none" THEN @
          ELSE IF ctxCancelled[c] THEN "pendingAfterCancel" ELSE "pending"]
    /\ UNCHANGED <<envVars, resourceVars, cacheFile, viperDefaults, callVars, ctxCancelled,
                   wstate, requests, answers, onlyRetries, lastAns, wKey, wErr>>

\* The caller cancels ctx, or the deadline of ctx passes. A select that has
\* a ready case is not waiting for this one.
Cancel(c) ==
    /\ pc[c] # "done"
    /\ pc[c] = "select" => Blocked(c)
    /\ ~ctxCancelled[c]
    /\ ctxCancelled' = [ctxCancelled EXCEPT ![c] = TRUE]
    /\ UNCHANGED <<envVars, resourceVars, cacheFile, viperDefaults, callVars, waiterVars>>

\* Lines 105-107: select takes the case <-timeoutCtx.Done().
SelectDone(c) ==
    /\ pc[c] = "select"
    /\ TimeoutCtxDone(c)
    /\ wstate' = [wstate EXCEPT ![c] = "TimedOut"]
    /\ wKey' = [wKey EXCEPT ![c] = ""]
    /\ wErr' = [wErr EXCEPT ![c] = "timed out"]
    /\ pc' = [pc EXCEPT ![c] = "paired"]
    /\ UNCHANGED <<envVars, resourceVars, cacheFile, viperDefaults, tfBridgeIp,
                   tfBridgeApiKey, useCache, ctxCancelled, cfg, result,
                   discoverCount, discoveredIp, cacheAtLoad, saveErr, pairedIp,
                   now, tick, requests, answers, onlyRetries, lastAns>>

\* Lines 108-110: select takes the case <-ticker.C and the pairing request
\* is sent. select chooses among its ready cases at random.
SelectTick(c) ==
    /\ pc[c] = "select"
    /\ tick[c] # "none"
    /\ tick' = [tick EXCEPT ![c] = "none"]
    /\ requests' = [requests EXCEPT ![c] = Sat(@)]
    /\ pc' = [pc EXCEPT ![c] = "auth"]
    /\ UNCHANGED <<envVars, resourceVars, cacheFile, viperDefaults, tfBridgeIp,
                   tfBridgeApiKey, useCache, ctxCancelled, cfg, result,
                   discoverCount, discoveredIp, cacheAtLoad, saveErr, pairedIp,
                   wstate, now, answers, onlyRetries, lastAns, wKey, wErr>>

\* Lines 110-118: the bridge answers the pairing request.
Authenticate(c) ==
    /\ pc[c] = "auth"
    /\ \E ans \in BridgeAnswers :
        LET r == authenticateWithBridgeIpOnce(ans) IN
        /\ lastAns' = [lastAns EXCEPT ![c] = ans]
        /\ answers' = [answers EXCEPT ![c] =
              IF Len(@) <= DeadlineTicks THEN Append(@, ans) ELSE @]
        /\ onlyRetries' = [onlyRetries EXCEPT ![c] = @ /\ ans = RetryAnswer]
        /\ IF r.err # "nil"
           THEN /\ wstate' = [wstate EXCEPT ![c] = "Failed"]
                /\ wKey' = [wKey EXCEPT ![c] = ""]
                /\ wErr' = [wErr EXCEPT ![c] = r.err]
                /\ pc' = [pc EXCEPT ![c] = "paired"]
           ELSE IF r.apiKey = ""
           THEN /\ pc' = [pc EXCEPT ![c] = "select"]
                /\ UNCHANGED <<wstate, wKey, wErr>>
           ELSE /\ wstate' = [wstate EXCEPT ![c] = "Paired"]
                /\ wKey' = [wKey EXCEPT ![c] = r.apiKey]
                /\ wErr' = [wErr EXCEPT ![c] = "nil"]
                /\ pc' = [pc EXCEPT ![c] = "paired"]
    /\ UNCHANGED <<envVars, resourceVars, cacheFile, viperDefaults, tfBridgeIp,
                   tfBridgeApiKey, useCache, ctxCancelled, cfg, result,
                   discoverCount, discoveredIp, cacheAtLoad, saveErr, pairedIp,
                   now, tick, requests>>

(* ---------------------------------------------------------------------- *)
(* GetAuthConfig, continued                                                *)
(* ---------------------------------------------------------------------- *)

\* AfterPairing changed: the error of the pairing loop does not end the call.
AfterPairing_NoReturnOnError(c) ==
    /\ pc[c] = "paired"
    /\ cfg' = [cfg EXCEPT ![c] = Set(@, KeyApiKey, wKey[c])]
    /\ pc' = [pc EXCEPT ![c] = "save"]
    /\ UNCHANGED <<envVars, resourceVars, cacheFile, viperDefaults, tfBridgeIp,
                   tfBridgeApiKey, useCache, ctxCancelled, result,
                   discoverCount, discoveredIp, cacheAtLoad, saveErr, pairedIp,
                   waiterVars>>

\* Lines 70-76: authenticateWithBridgeIp has returned (the local variable
\* tfBridgeApiKey of the source is wKey here).
AfterPairing(c) ==
    /\ pc[c] = "paired"
    /\ IF wErr[c] # "nil"
       THEN /\ Fail(c, "authenticate")
            /\ UNCHANGED cfg
       ELSE /\ cfg' = [cfg EXCEPT ![c] = Set(@, KeyApiKey, wKey[c])]
            /\ pc' = [pc EXCEPT ![c] = "save"]
            /\ UNCHANGED result
    /\ UNCHANGED <<envVars, resourceVars, cacheFile, viperDefaults, tfBridgeIp,
                   tfBridgeApiKey, useCache, ctxCancelled, discoverCount,
                   discoveredIp, cacheAtLoad, saveErr, pairedIp, waiterVars>>

\* SafeWriteConfigAs changed to WriteConfigAs: an existing file is replaced.
SafeWriteConfigAs_Overwrite(c, file) ==
    IF ~writable
    THEN [file |-> file, err |-> "failed"]
    ELSE [file |-> [exists |-> TRUE, readable |-> TRUE, data |-> AllSettings(c)],
          err |-> "ok"]

\* cfg.SafeWriteConfigAs(path): refuses to replace an existing file, else
\* creates it with the registry's settings.
SafeWriteConfigAs(c, file) ==
    IF file.exists \/ ~writable
    THEN [file |-> file, err |-> "failed"]
    ELSE [file |-> [exists |-> TRUE, readable |-> TRUE, data |-> AllSettings(c)],
          err |-> "ok"]

\* AuthConfigAfterSave changed: a failed write is returned as an error.
AuthConfigAfterSave_WriteErrorReturned(c, writeErr) ==
    IF writeErr = "failed"
    THEN [cfg |-> NilAuthConfig, err |-> "write"]
    ELSE [cfg |-> [BridgeIp |-> GetString(c, KeyIp),
                   BridgeApiKey |-> GetString(c, KeyApiKey)],
          err |-> "nil"]

\* Lines 84-87, after a write that ended with writeErr.
AuthConfigAfterSave(c, writeErr) ==
    [cfg |-> [BridgeIp |-> GetString(c, KeyIp),
              BridgeApiKey |-> GetString(c, KeyApiKey)],
     err |-> "nil"]

\* Lines 78-87: the cache file is written and the credentials are returned.
SaveAndReturn(c) ==
    /\ pc[c] = "save"
    /\ LET w == IF useCache[c] THEN SafeWriteConfigAs(cfg[c], cacheFile)
                ELSE [file |-> cacheFile, err |-> "none"] IN
        /\ cacheFile' = w.file
        /\ saveErr' = [saveErr EXCEPT ![c] = w.err]
        /\ result' = [result EXCEPT ![c] = AuthConfigAfterSave(cfg[c], w.err)]
    /\ pc' = [pc EXCEPT ![c] = "done"]
    /\ UNCHANGED <<envVars, resourceVars, viperDefaults, tfBridgeIp, tfBridgeApiKey,
                   useCache, ctxCancelled, cfg, discoverCount, discoveredIp,
                   cacheAtLoad, pairedIp, waiterVars>>

GetAuthConfig(c) ==
    \/ LoadConfig(c)
    \/ ResolveBridgeIp(c)
    \/ ResolveApiKey(c)
    \/ AfterPairing(c)
    \/ SaveAndReturn(c)

authenticateWithBridgeIp(c) ==
    \/ SelectDone(c)
    \/ SelectTick(c)
    \/ Authenticate(c)

Next ==
    \E c \in SeqCalls :
        \/ GetAuthConfig(c)
        \/ authenticateWithBridgeIp(c)
        \/ AdvanceTime(c)
        \/ Cancel(c)

Spec == Init /\ [][Next]_vars

(* ---------------------------------------------------------------------- *)
(* Credential resolution                                                   *)
(* ---------------------------------------------------------------------- *)

\* The value of key in the cache file the invocation found ("" when caching
\* is off, the file is missing or unreadable, or the key is not in it).
Cached(c, key) ==
    IF useCache[c] /\ cacheAtLoad[c].exists /\ cacheAtLoad[c].readable
       /\ key \in DOMAIN cacheAtLoad[c].data
    THEN cacheAtLoad[c].data[key]
    ELSE ""

\* explicit > environment > cached > empty
Precedence(explicit, environment, cached) ==
    IF explicit # "" THEN explicit
    ELSE IF environment # "" THEN environment
    ELSE cached

Returned(c) == pc[c] = "done"

Succeeded(c) == pc[c] = "done" /\ result[c].err = "nil"

\* C1: right after the load step, the address and the API key the registry
\* resolves are the explicit value if there is one, else the environment's,
\* else the cached one, else empty.
C1_ResolutionPrecedence ==
    \A c \in Calls :
        pc[c] = "discover" =>
            /\ GetString(cfg[c], KeyIp) =
                 Precedence(tfBridgeIp[c], env[KeyIp], Cached(c, KeyIp))
            /\ GetString(cfg[c], KeyApiKey) =
                 Precedence(tfBridgeApiKey[c], env[KeyApiKey], Cached(c, KeyApiKey))

CacheHadBoth(c) ==
    /\ useCache[c]
    /\ Cached(c, KeyIp) # ""
    /\ Cached(c, KeyApiKey) # ""

NoExplicitNoEnv(c) ==
    /\ tfBridgeIp[c] = ""
    /\ tfBridgeApiKey[c] = ""
    /\ env[KeyIp] = ""
    /\ env[KeyApiKey] = ""

\* C2: with caching on, a cache file holding both fields, no explicit input
\* and no environment override, the call returns exactly the cached pair and
\* runs neither discovery nor the pairing loop.
C2_CachedPairReturned ==
    \A c \in Calls :
        (pc[c] # "start" /\ CacheHadBoth(c) /\ NoExplicitNoEnv(c)) =>
            /\ discoverCount[c] = 0
            /\ wstate[c] = "Idle"
            /\ Returned(c) =>
                 /\ result[c].err = "nil"
                 /\ result[c].cfg = [BridgeIp |-> Cached(c, KeyIp),
                                     BridgeApiKey |-> Cached(c, KeyApiKey)]

C2_Witness ==
    \E c \in Calls :
        /\ Returned(c)
        /\ CacheHadBoth(c)
        /\ NoExplicitNoEnv(c)
        /\ result[c].cfg.BridgeIp = "10.0.0.3"
        /\ result[c].cfg.BridgeApiKey = "key-cache"

\* C3: an explicit address other than the sentinel is never discovered over
\* and is the address returned.
C3_ExplicitAddressKept ==
    \A c \in Calls :
        (pc[c] # "start" /\ tfBridgeIp[c] \notin {"", Discover}) =>
            /\ discoverCount[c] = 0
            /\ Succeeded(c) => result[c].cfg.BridgeIp = tfBridgeIp[c]

MustDiscover(c) ==
    \/ tfBridgeIp[c] = Discover
    \/ Precedence(tfBridgeIp[c], env[KeyIp], Cached(c, KeyIp)) = ""

\* C4: a call given the sentinel, or with no address from any source, runs
\* discovery exactly once.
C4_DiscoveryExactlyOnce ==
    \A c \in Calls :
        /\ discoverCount[c] <= 1
        /\ (Returned(c) /\ MustDiscover(c)) => discoverCount[c] = 1

(* ---------------------------------------------------------------------- *)
(* Cache write                                                             *)
(* ---------------------------------------------------------------------- *)

\* C9: after a successful call with caching on and a writable location, the
\* cache file holds exactly the returned pair.
C9_CacheHoldsReturnedPair ==
    \A c \in Calls :
        (Succeeded(c) /\ useCache[c] /\ writable) =>
            /\ cacheFile.exists
            /\ cacheFile.readable
            /\ cacheFile.data = [k \in Keys |->
                  IF k = KeyIp THEN result[c].cfg.BridgeIp
                  ELSE result[c].cfg.BridgeApiKey]

\* The credentials the inputs determine: the discovered address if discovery
\* ran, the issued key if pairing ran, else what environment and cache give.
Determined(c, key, ran, fresh) ==
    IF ran THEN fresh
    ELSE IF env[key] # "" THEN env[key]
    ELSE Cached(c, key)

\* C10: whether the cache write succeeds or fails, the call returns without
\* error the credentials its inputs, environment, cache and bridge determine.
C10_SaveFailureHarmless ==
    \A c \in Calls :
        (Returned(c) /\ saveErr[c] \in {"ok", "failed"}) =>
            /\ result[c].err = "nil"
            /\ result[c].cfg.BridgeIp =
                 Determined(c, KeyIp, discoverCount[c] > 0, discoveredIp[c])
            /\ result[c].cfg.BridgeApiKey =
                 Determined(c, KeyApiKey, wstate[c] # "Idle", wKey[c])

C10_Witness ==
    \E c \in Calls :
        /\ Returned(c)
        /\ saveErr[c] = "failed"
        /\ ~cacheAtLoad[c].exists
        /\ wstate[c] = "Paired"
        /\ result[c].cfg.BridgeApiKey = "key-bridge"

(* ---------------------------------------------------------------------- *)
(* Pairing loop                                                            *)
(* ---------------------------------------------------------------------- *)

\* n answers "not yet authorized"
Retries(n) == [i \in 1..n |-> RetryAnswer]

\* n answers "not yet authorized", then the answer last
RetriesThen(n, last) == [i \in 1..(n + 1) |-> IF i <= n THEN RetryAnswer ELSE last]

\* C5: n retry answers followed by an answer with a key end the loop in
\* Paired with that key, no error and n+1 requests made; while the answers
\* are all retries the loop stays in Polling with no error.
C5_PairedAfterRetries ==
    \A c \in Calls :
        /\ \A n \in 0..(DeadlineTicks - 1), a \in KeyAnswers :
             answers[c] = RetriesThen(n, a) =>
                /\ wstate[c] = "Paired"
                /\ wKey[c] = a.apiKey
                /\ wErr[c] = "nil"
                /\ requests[c] = n + 1
        /\ \A n \in 1..DeadlineTicks :
             (answers[c] = Retries(n) /\ wstate[c] # "TimedOut") =>
                /\ wstate[c] = "Polling"
                /\ wKey[c] = ""
                /\ wErr[c] = "none"

C5_Witness ==
    \E c \in Calls, a \in KeyAnswers :
        /\ answers[c] = RetriesThen(2, a)
        /\ wstate[c] = "Paired"
        /\ wKey[c] = "key-bridge"

\* C6: an answer with an error other than "not yet authorized" ends the loop
\* in Failed with that error and no key, and no request follows it.
C6_FatalAnswerFails ==
    \A c \in Calls :
        lastAns[c] \in FatalAnswers =>
            /\ wstate[c] = "Failed"
            /\ wErr[c] = lastAns[c].err
            /\ wKey[c] = ""
            /\ pc[c] \notin {"select", "auth"}
            /\ requests[c] = Len(answers[c])

C6_Witness ==
    \E c \in Calls :
        /\ lastAns[c] \in FatalAnswers
        /\ wstate[c] = "Failed"
        /\ requests[c] = 3
        /\ onlyRetries[c] = FALSE
        /\ answers[c][1] = RetryAnswer
        /\ answers[c][2] = RetryAnswer

\* Time passes, the bridge answers every request and a select with a ready
\* case takes one; select chooses at random among its ready cases, so a
\* case that is ready at every evaluation is taken in the end.
Fairness ==
    \A c \in SeqCalls :
        /\ WF_vars(AdvanceTime(c))
        /\ WF_vars(Authenticate(c))
        /\ WF_vars(SelectTick(c) \/ SelectDone(c))
        /\ SF_vars(SelectDone(c))

\* The pairing loop on its own: GetAuthConfig, called with no address and no
\* key in an empty environment, has discovered the bridge and is about to
\* resolve the API key; the caller may have cancelled ctx already.
WaiterInit ==
    /\ env = [k \in Keys |-> ""]
    /\ homeOk = TRUE
    /\ writable = TRUE
    /\ cacheFile = NoFile
    /\ viperDefaults = [k \in Keys |-> ""]
    /\ pc = [c \in Calls |-> IF c \in SeqCalls THEN "apikey" ELSE "start"]
    /\ tfBridgeIp = [c \in Calls |-> ""]
    /\ tfBridgeApiKey = [c \in Calls |-> ""]
    /\ useCache \in [Calls -> BOOLEAN]
    /\ \A c \in Calls \ SeqCalls : useCache[c] = FALSE
    /\ ctxCancelled \in [Calls -> BOOLEAN]
    /\ \A c \in Calls \ SeqCalls : ctxCancelled[c] = FALSE
    /\ \E ip \in DiscoveredIps :
        /\ cfg = [c \in Calls |->
              IF c \in SeqCalls
              THEN Set([override |-> EmptyMap, config |-> EmptyMap], KeyIp, ip)
              ELSE [override |-> EmptyMap, config |-> EmptyMap]]
        /\ discoveredIp = [c \in Calls |-> IF c \in SeqCalls THEN ip ELSE ""]
    /\ result = [c \in Calls |-> [cfg |-> NilAuthConfig, err |-> "none"]]
    /\ discoverCount = [c \in Calls |-> IF c \in SeqCalls THEN 1 ELSE 0]
    /\ cacheAtLoad = [c \in Calls |-> NoFile]
    /\ saveErr = [c \in Calls |-> "none"]
    /\ pairedIp = [c \in Calls |-> ""]
    /\ wstate = [c \in Calls |-> "Idle"]
    /\ now = [c \in Calls |-> 0]
    /\ tick = [c \in Calls |-> "none"]
    /\ requests = [c \in Calls |-> 0]
    /\ answers = [c \in Calls |-> <<>>]
    /\ onlyRetries = [c \in Calls |-> TRUE]
    /\ lastAns = [c \in Calls |-> NoAnswer]
    /\ wKey = [c \in Calls |-> ""]
    /\ wErr = [c \in Calls |-> "none"]
    /\ ResourcesInit

WaiterNext ==
    \E c \in SeqCalls :
        \/ ResolveApiKey(c)
        \/ authenticateWithBridgeIp(c)
        \/ AdvanceTime(c)
        \/ Cancel(c)

WaiterSpec == WaiterInit /\ [][WaiterNext]_vars /\ Fairness

\* C7: a loop whose requests are all answered "not yet authorized" ends in
\* TimedOut with a timeout error and no key, and never in Paired or Failed.
C7_TimesOut ==
    \A c \in Calls :
        /\ []((requests[c] > 0 /\ onlyRetries[c]) =>
                 wstate[c] \in {"Polling", "TimedOut"})
        /\ [](wstate[c] = "TimedOut" => (wErr[c] = "timed out" /\ wKey[c] = ""))
        /\ (wstate[c] = "Polling") ~> (wstate[c] = "TimedOut" \/ ~onlyRetries[c])

C7_Witness ==
    \E c \in Calls :
        /\ wstate[c] = "TimedOut"
        /\ onlyRetries[c]
        /\ ~ctxCancelled[c]
        /\ now[c] = DeadlineTicks
        /\ requests[c] >= 2

\* C8: once ctx is cancelled the loop sends no pairing request for a tick
\* that fired after the cancellation.
C8_NoRequestAfterCancel ==
    [][\A c \in Calls :
         (pc[c] = "select" /\ pc'[c] = "auth") => tick[c] # "pendingAfterCancel"]_vars

(* ---------------------------------------------------------------------- *)
(* Failure ordering, usable results, load step                             *)
(* ---------------------------------------------------------------------- *)

\* Discovery was run and reported no bridge.
DiscoveryFailed(c) ==
    discoverCount[c] > 0 /\ discoveredIp[c] = "" /\ pc[c] # "discover"

\* C11: a failed discovery ends the call with an error, the pairing loop not
\* entered and nothing written; a pairing loop that ended in Failed or
\* TimedOut ends the call with an error and the cache file as it was.
C11_FailFast ==
    \A c \in Calls :
        /\ DiscoveryFailed(c) =>
             /\ Returned(c)
             /\ result[c].err = "discover"
             /\ wstate[c] = "Idle"
             /\ saveErr[c] = "none"
             /\ cacheFile = cacheAtLoad[c]
        /\ (wstate[c] \in {"Failed", "TimedOut"} /\ pc[c] # "paired") =>
             /\ Returned(c)
             /\ result[c].err = "authenticate"
             /\ result[c].cfg = NilAuthConfig
             /\ saveErr[c] = "none"
             /\ cacheFile = cacheAtLoad[c]

C11_Witness ==
    \E c \in Calls :
        /\ Returned(c)
        /\ wstate[c] = "TimedOut"
        /\ discoverCount[c] = 1
        /\ discoveredIp[c] = "10.0.0.4"
        /\ useCache[c]
        /\ writable
        /\ ~cacheFile.exists

\* C12: credentials returned without error have a non-empty address and a
\* non-empty API key.
C12_ReturnedPairNonEmpty ==
    \A c \in Calls :
        Succeeded(c) =>
            /\ result[c].cfg.BridgeIp # ""
            /\ result[c].cfg.BridgeApiKey # ""

C12_Witness ==
    \E c \in Calls :
        /\ Succeeded(c)
        /\ discoverCount[c] = 1
        /\ wstate[c] = "Paired"
        /\ result[c].cfg = [BridgeIp |-> "10.0.0.4", BridgeApiKey |-> "key-bridge"]

\* C13: no error of the call comes from the load step, and a missing or
\* unreadable cache file gives an empty config layer.
C13_LoadNeverFails ==
    \A c \in Calls :
        pc[c] # "start" =>
            /\ result[c].err # "home"
            /\ ~(cacheAtLoad[c].exists /\ cacheAtLoad[c].readable) =>
                  cfg[c].config = EmptyMap

\* C14: with caching off the cache file is not read (the config layer is
\* empty, so the credentials come from the environment, discovery and
\* pairing alone) and not written.
C14_CacheOffNoFileAccess ==
    \A c \in Calls :
        (pc[c] # "start" /\ ~useCache[c]) =>
            /\ cfg[c].config = EmptyMap
            /\ saveErr[c] = "none"
            /\ cacheFile = cacheAtLoad[c]
            /\ Succeeded(c) =>
                 /\ result[c].cfg.BridgeIp =
                      (IF discoverCount[c] > 0 THEN discoveredIp[c] ELSE env[KeyIp])
                 /\ result[c].cfg.BridgeApiKey =
                      (IF wstate[c] # "Idle" THEN wKey[c] ELSE env[KeyApiKey])
            /\ discoverCount[c] > 0 =>
                 (env[KeyIp] = "" \/ tfBridgeIp[c] = Discover)
            /\ wstate[c] # "Idle" => env[KeyApiKey] = ""

C14_Witness ==
    \E c \in Calls :
        /\ Succeeded(c)
        /\ ~useCache[c]
        /\ cacheFile.exists
        /\ cacheFile.readable
        /\ DOMAIN cacheFile.data = Keys
        /\ result[c].cfg = [BridgeIp |-> "10.0.0.4", BridgeApiKey |-> "key-bridge"]

C17_SentinelNeverUsed ==
    \A c \in Calls :
        /\ Succeeded(c) => result[c].cfg.BridgeIp # Discover
        /\ wstate[c] # "Idle" => pairedIp[c] # Discover

(* ---------------------------------------------------------------------- *)
(* Two concurrent calls                                                    *)
(* ---------------------------------------------------------------------- *)

\* Two callers in one process: an empty environment, a writable home
\* directory and no cache file yet.
ConcInit ==
    /\ Init
    /\ env = [k \in Keys |-> ""]
    /\ homeOk = TRUE
    /\ writable = TRUE
    /\ cacheFile = NoFile

\* Both callers pass no address and no key and turn caching on.
ConcArguments ==
    \A c \in Calls :
        pc[c] # "start" =>
            tfBridgeIp[c] = "" /\ tfBridgeApiKey[c] = "" /\ useCache[c]

\* The steps of the two calls interleave; a step of GetAuthConfig between
\* two accesses of shared state (the cache file) is atomic.
ConcNext ==
    \E c \in Calls :
        \/ LoadConfig(c) /\ ConcArguments'
        \/ ResolveBridgeIp(c)
        \/ ResolveApiKey(c)
        \/ AfterPairing(c)
        \/ SaveAndReturn(c)
        \/ authenticateWithBridgeIp(c)
        \/ AdvanceTime(c)

ConcSpec == ConcInit /\ [][ConcNext]_vars

\* The call that wrote the cache file, if any.
Writer(c) == saveErr[c] = "ok"

\* C15: two concurrent calls with caching on that both succeed leave the
\* cache file of exactly one of them: the first write creates the file, the
\* other write is refused and its failure swallowed, so the file holds the
\* writer's credentials whatever the other call returned.
C15_OneWriterOtherLost ==
    (\A c \in Calls : Succeeded(c)) =>
        \E w \in Calls :
            /\ Writer(w)
            /\ \A c \in Calls \ {w} : saveErr[c] = "failed"
            /\ cacheFile.exists
            /\ cacheFile.data = AllSettings(cfg[w])
            /\ cacheFile.data[KeyIp] = result[w].cfg.BridgeIp
            /\ cacheFile.data[KeyApiKey] = result[w].cfg.BridgeApiKey

\* Both calls found no cache file, both paired and both succeeded; the
\* bridge issued them different keys, and the file holds the key of call 1
\* while call 2 returned another.
C15_Witness ==
    /\ \A c \in Calls : Succeeded(c) /\ wstate[c] = "Paired"
                           /\ ~cacheAtLoad[c].exists
    /\ Writer(1)
    /\ saveErr[2] = "failed"
    /\ result[1].cfg.BridgeApiKey = "key-bridge"
    /\ result[2].cfg.BridgeApiKey = "key-bridge-2"
    /\ cacheFile.data[KeyApiKey] = "key-bridge"
    /\ cacheFile.data[KeyApiKey] # result[2].cfg.BridgeApiKey

(* ---------------------------------------------------------------------- *)
(* The bridge's answers to the REST client                                 *)
(* ---------------------------------------------------------------------- *)

\* req.ProviderData: nil, the REST client, or a value of another type.
ProviderDatas == {"nil", "client", "other"}

\* Bodies of an answer: none, one that is not JSON, a JSON object without a
\* "data" member, one with an empty "data" list, one with one element.
Bodies == {"nil", "text", "object", "noData", "data"}

Statuses == {200, 201, 207, 500}

\* What a ...WithResponse call gives back: an error, or a status and a body.
Responses ==
    {[err |-> TRUE, status |-> 0, body |-> "nil"]}
        \cup {[err |-> FALSE, status |-> st, body |-> b] :
                st \in Statuses, b \in Bodies}

\* apiResp.JSON200: parsed for a JSON body of a 200 answer only.
JSON200(r) ==
    IF r.status = 200 /\ r.body \in {"object", "noData", "data"}
    THEN r.body ELSE "nil"

\* The one light and the one room the bridge knows.
BridgeLight == [id |-> "light-1", name |-> "lamp", on |-> TRUE]

BridgeRoom == [id |-> "room-1", name |-> "den", archetype |-> "office"]

(* ---------------------------------------------------------------------- *)
(* What a handler leaves in its response                                   *)
(* ---------------------------------------------------------------------- *)

\* resp.Diagnostics.AddError(summary, ...); return
AddError(summary, sent) ==
    [diagnostics |-> <<summary>>, sent |-> sent, state |-> <<>>,
     panicked |-> FALSE]

\* return, with nothing added to the response
Return(sent) ==
    [diagnostics |-> <<>>, sent |-> sent, state |-> <<>>, panicked |-> FALSE]

\* resp.State.Set(ctx, &model)
StateSet(model, sent) ==
    [diagnostics |-> <<>>, sent |-> sent, state |-> <<model>>,
     panicked |-> FALSE]

\* A nil pointer is dereferenced: the handler does not return.
Panic(sent) ==
    [diagnostics |-> <<>>, sent |-> sent, state |-> <<>>, panicked |-> TRUE]

\* req.Plan.Get, req.State.Get or req.Config.Get reported an error.
GetError(sent) == AddError("value conversion error", sent)

\* r.client.<name>WithResponse(ctx, ...)
Request(name, payload) == [name |-> name, payload |-> payload]

(* ---------------------------------------------------------------------- *)
(* Room                                                                    *)
(* ---------------------------------------------------------------------- *)

\* The archetype attribute of a plan: two known names, an unknown one and
\* the empty string.
PlanArchetypes == {"kitchen", "office", "attic", ""}

RoomPlans ==
    [id : {"room-1"}, name : {"den"}, archetype : PlanArchetypes]

stringToRoomArchetype ==
    [a \in {"bedroom", "bathroom", "kitchen", "dining", "office", "other"}
        |-> <<"RoomArchetype", a>>]

mapStringToRoomArchetype(archetype) ==
    IF archetype \in DOMAIN stringToRoomArchetype
    THEN [val |-> stringToRoomArchetype[archetype], ok |-> TRUE]
    ELSE [val |-> <<>>, ok |-> FALSE]

\* var putData openhue.RoomPut
ZeroRoomPut == [metadata |-> <<>>, children |-> <<>>]

buildRoomPutPayload(model) ==
    LET archetype == mapStringToRoomArchetype(model.archetype) IN
    IF ~archetype.ok
    THEN [putData |-> ZeroRoomPut, err |-> "invalid archetype"]
    ELSE [putData |-> [metadata |-> <<model.name, archetype.val>>,
                       children |-> <<>>],
          err |-> "nil"]

\* The handler of Configure, for Room, Light and LightDataSource alike.
ConfigureOutcome(providerData) ==
    IF providerData = "nil" THEN Return(<<>>)
    ELSE IF providerData # "client"
    THEN AddError("expected openhue.ClientWithResponses", <<>>)
    ELSE Return(<<>>)

\* Room.Create
RoomCreateOutcome(cl, planErr, model, r) ==
    IF cl = "nil" THEN AddError("failed to create room", <<>>)
    ELSE IF planErr THEN GetError(<<>>)
    ELSE LET p == buildRoomPutPayload(model)
             sent == <<Request("CreateRoom", p.putData)>> IN
        IF p.err # "nil" THEN AddError("failed to create room", <<>>)
        ELSE IF r.err THEN AddError("failed to create room", sent)
        ELSE IF r.status # 201 THEN AddError("failed to create room", sent)
        ELSE IF r.body = "nil" THEN AddError("failed to create room", sent)
        \* json.Unmarshal onto JSON200, then *apiResp.JSON200.Data
        ELSE IF r.body \in {"text", "object"} THEN Panic(sent)
        ELSE IF r.body = "noData" THEN AddError("failed to create room", sent)
        ELSE StateSet([model EXCEPT !.id = BridgeRoom.id], sent)

\* Room.Read
RoomReadOutcome(cl, stateErr, model, r) ==
    IF cl = "nil" THEN AddError("failed to read room", <<>>)
    ELSE IF stateErr THEN GetError(<<>>)
    ELSE LET sent == <<Request("GetRoom", model.id)>> IN
        IF r.err THEN AddError("failed to get room", sent)
        ELSE IF r.status # 200 THEN AddError("failed to get room", sent)
        ELSE IF JSON200(r) = "nil" THEN AddError("failed to get room", sent)
        ELSE IF JSON200(r) = "object" THEN Panic(sent)
        ELSE IF JSON200(r) = "noData" THEN AddError("failed to get room", sent)
        ELSE StateSet(BridgeRoom, sent)

\* Room.Update: the error of buildRoomPutPayload is overwritten by the one
\* of UpdateRoomWithResponse before it is looked at.
RoomUpdateOutcome(cl, planErr, model, r) ==
    IF cl = "nil" THEN AddError("failed to update room", <<>>)
    ELSE IF planErr THEN GetError(<<>>)
    ELSE LET p == buildRoomPutPayload(model)
             sent == <<Request("UpdateRoom", <<model.id, p.putData>>)>> IN
        IF r.err THEN AddError("failed to update room", sent)
        ELSE IF r.status # 200 THEN AddError("failed to update room", sent)
        ELSE IF JSON200(r) = "nil" THEN AddError("failed to update room", sent)
        ELSE IF JSON200(r) = "object" THEN Panic(sent)
        ELSE IF JSON200(r) = "noData"
        THEN AddError("failed to update room", sent)
        ELSE StateSet(model, sent)

\* Room.Delete
RoomDeleteOutcome(cl, stateErr, model, r) ==
    IF cl = "nil" THEN AddError("failed to delete room", <<>>)
    ELSE IF stateErr THEN GetError(<<>>)
    ELSE LET sent == <<Request("DeleteRoom", model.id)>> IN
        IF r.err THEN AddError("failed to delete room", sent)
        ELSE IF r.status # 200 THEN AddError("failed to delete room", sent)
        ELSE Return(sent)

(* ---------------------------------------------------------------------- *)
(* Light and LightDataSource                                               *)
(* ---------------------------------------------------------------------- *)

\* The name attribute: the bridge's light, and one the bridge does not have.
LightPlans == [id : {"light-1"}, name : {"lamp", "spot"}, on : {TRUE}]

\* Always succeeds; colour and brightness are left out.
lightModelToPayload(model) == [on |-> model.on]

mapLightStateToModel(lightModel, light) ==
    [id |-> light.id, name |-> light.name, on |-> light.on]

\* The search of Light.Create and LightDataSource.Read in the lights of a
\* GetLights answer: <<>> stands for targetLight == nil.
TargetLight(r, model) ==
    IF JSON200(r) = "data" /\ BridgeLight.name = model.name
    THEN <<BridgeLight>> ELSE <<>>

\* Light.Create
LightCreateOutcome(cl, planErr, model, r, u) ==
    IF cl = "nil" THEN AddError("failed to create light", <<>>)
    ELSE IF planErr THEN GetError(<<>>)
    ELSE LET first == <<Request("GetLights", <<>>)>> IN
        IF r.err THEN AddError("failed to find light", first)
        ELSE IF r.status # 200 THEN AddError("failed to find light", first)
        \* *parsedApiResp.JSON200.Data
        ELSE IF JSON200(r) \in {"nil", "object"} THEN Panic(first)
        ELSE IF TargetLight(r, model) = <<>>
        THEN AddError("failed to find light", first)
        ELSE LET found == [model EXCEPT !.id = TargetLight(r, model)[1].id]
                 sent == Append(first,
                     Request("UpdateLight",
                             <<found.id, lightModelToPayload(found)>>)) IN
            IF u.err THEN AddError("failed to update light", sent)
            ELSE IF u.status \notin {200, 207}
            THEN AddError("failed to update light", sent)
            ELSE IF JSON200(u) = "nil"
            THEN AddError("failed to update light", sent)
            ELSE IF JSON200(u) = "object" THEN Panic(sent)
            ELSE IF JSON200(u) = "noData"
            THEN AddError("failed to get light", sent)
            ELSE StateSet(found, sent)

\* Light.Read
LightReadOutcome(cl, stateErr, model, r) ==
    IF cl = "nil" THEN AddError("failed to read light", <<>>)
    ELSE IF stateErr THEN GetError(<<>>)
    ELSE LET sent == <<Request("GetLight", model.id)>> IN
        IF r.err THEN AddError("failed to get light", sent)
        ELSE IF r.status # 200 THEN AddError("failed to get light", sent)
        ELSE IF JSON200(r) = "nil" THEN AddError("failed to get light", sent)
        ELSE IF JSON200(r) = "object" THEN Panic(sent)
        ELSE IF JSON200(r) = "noData"
        THEN AddError("failed to get light", sent)
        ELSE StateSet(mapLightStateToModel(model, BridgeLight), sent)

\* Light.Update
LightUpdateOutcome(cl, planErr, model, r) ==
    IF cl = "nil" THEN AddError("failed to update light", <<>>)
    ELSE IF planErr THEN GetError(<<>>)
    ELSE LET sent == <<Request("UpdateLight",
                               <<model.id, lightModelToPayload(model)>>)>> IN
        IF r.err THEN AddError("failed to update light", sent)
        ELSE IF r.status # 200 THEN AddError("failed to update light", sent)
        ELSE StateSet(model, sent)

\* Light.Delete: lights cannot be deleted.
LightDeleteOutcome(cl) == Return(<<>>)

\* LightDataSource.Read: d.client is used without a test for nil.
LightDataSourceReadOutcome(cl, configErr, model, r) ==
    IF configErr THEN GetError(<<>>)
    ELSE IF cl = "nil" THEN Panic(<<>>)
    ELSE LET sent == <<Request("GetLights", <<>>)>> IN
        IF r.err THEN AddError("failed to find light", sent)
        ELSE IF r.status # 200 THEN AddError("failed to find light", sent)
        ELSE IF JSON200(r) \in {"nil", "object"} THEN Panic(sent)
        ELSE IF TargetLight(r, model) = <<>>
        THEN AddError("failed to find light", sent)
        ELSE StateSet(TargetLight(r, model)[1], sent)

(* ---------------------------------------------------------------------- *)
(* The framework invokes the handlers                                      *)
(* ---------------------------------------------------------------------- *)

\* One invocation: the handler runs to its end against a fresh response;
\* the answers recorded are those of the requests it made.
Handle(component, operation, input, responses, outcome) ==
    /\ ~crashed
    /\ call' = [component |-> component, operation |-> operation,
                input |-> input,
                responses |-> SubSeq(responses, 1, Len(outcome.sent))]
    /\ resp' = outcome
    /\ crashed' = outcome.panicked

\* Room.Configure, Light.Configure, LightDataSource.Configure
Configure(k) ==
    \E providerData \in ProviderDatas :
        /\ Handle(k, "Configure", providerData, <<>>,
                  ConfigureOutcome(providerData))
        /\ client' = IF providerData = "client"
                     THEN [client EXCEPT ![k] = "client"] ELSE client
        /\ UNCHANGED authVars

RoomCreate ==
    \E planErr \in BOOLEAN, model \in RoomPlans, r \in Responses :
        /\ Handle("Room", "Create", [err |-> planErr, model |-> model], <<r>>,
                  RoomCreateOutcome(client["Room"], planErr, model, r))
        /\ UNCHANGED <<client, authVars>>

RoomRead ==
    \E stateErr \in BOOLEAN, r \in Responses :
        /\ Handle("Room", "Read", [err |-> stateErr, model |-> BridgeRoom],
                  <<r>>,
                  RoomReadOutcome(client["Room"], stateErr, BridgeRoom, r))
        /\ UNCHANGED <<client, authVars>>

RoomUpdate ==
    \E planErr \in BOOLEAN, model \in RoomPlans, r \in Responses :
        /\ Handle("Room", "Update", [err |-> planErr, model |-> model], <<r>>,
                  RoomUpdateOutcome(client["Room"], planErr, model, r))
        /\ UNCHANGED <<client, authVars>>

RoomDelete ==
    \E stateErr \in BOOLEAN, r \in Responses :
        /\ Handle("Room", "Delete", [err |-> stateErr, model |-> BridgeRoom],
                  <<r>>,
                  RoomDeleteOutcome(client["Room"], stateErr, BridgeRoom, r))
        /\ UNCHANGED <<client, authVars>>

\* The answers UpdateLight may get in Light.Create: none is drawn when the
\* handler returns before that request.
UpdateLightAnswers(cl, planErr, model, r) ==
    IF cl # "nil" /\ ~planErr /\ TargetLight(r, model) # <<>>
    THEN Responses ELSE {r}

LightCreate ==
    \E planErr \in BOOLEAN, model \in LightPlans, r \in Responses :
      \E u \in UpdateLightAnswers(client["Light"], planErr, model, r) :
        /\ Handle("Light", "Create", [err |-> planErr, model |-> model],
                  <<r, u>>,
                  LightCreateOutcome(client["Light"], planErr, model, r, u))
        /\ UNCHANGED <<client, authVars>>

LightRead ==
    \E stateErr \in BOOLEAN, r \in Responses :
        /\ Handle("Light", "Read", [err |-> stateErr, model |-> BridgeLight],
                  <<r>>,
                  LightReadOutcome(client["Light"], stateErr, BridgeLight, r))
        /\ UNCHANGED <<client, authVars>>

LightUpdate ==
    \E planErr \in BOOLEAN, model \in LightPlans, r \in Responses :
        /\ Handle("Light", "Update", [err |-> planErr, model |-> model],
                  <<r>>,
                  LightUpdateOutcome(client["Light"], planErr, model, r))
        /\ UNCHANGED <<client, authVars>>

LightDelete ==
    /\ Handle("Light", "Delete", [err |-> FALSE, model |-> BridgeLight],
              <<>>, LightDeleteOutcome(client["Light"]))
    /\ UNCHANGED <<client, authVars>>

LightDataSourceRead ==
    \E configErr \in BOOLEAN, model \in LightPlans, r \in Responses :
        /\ Handle("LightDataSource", "Read",
                  [err |-> configErr, model |-> model], <<r>>,
                  LightDataSourceReadOutcome(client["LightDataSource"],
                                             configErr, model, r))
        /\ UNCHANGED <<client, authVars>>

\* No call of GetAuthConfig is under way while the handlers run.
ResourceInit ==
    /\ Init
    /\ env = [k \in Keys |-> ""]
    /\ homeOk = TRUE
    /\ writable = TRUE
    /\ cacheFile = NoFile

ResourceNext ==
    \/ \E k \in Components : Configure(k)
    \/ RoomCreate
    \/ RoomRead
    \/ RoomUpdate
    \/ RoomDelete
    \/ LightCreate
    \/ LightRead
    \/ LightUpdate
    \/ LightDelete
    \/ LightDataSourceRead

ResourceSpec == ResourceInit /\ [][ResourceNext]_vars

\* The handler invoked last ran with a nil client.
ClientWasNil ==
    /\ call.component \in Components
    /\ call.operation # "Configure"
    /\ client[call.component] = "nil"

\* C18: Room.Create and Room.Update, given an archetype that is not a key of
\* stringToRoomArchetype, add an error diagnostic, send no request and set
\* no state.
C18_UnknownArchetypeRejected ==
    (/\ call.component = "Room"
     /\ call.operation \in {"Create", "Update"}
     /\ call.input.model.archetype \notin DOMAIN stringToRoomArchetype)
        => /\ resp.diagnostics # <<>>
           /\ resp.sent = <<>>
           /\ resp.state = <<>>

\* C19: a handler of Room, Light or LightDataSource that runs with a nil
\* client sends no request and sets no state, and, unless it is
\* Light.Delete, adds an error diagnostic and does not panic.
C19_NilClientReported ==
    ClientWasNil =>
        /\ resp.sent = <<>>
        /\ resp.state = <<>>
        /\ ~(call.component = "Light" /\ call.operation = "Delete")
              => resp.diagnostics # <<>> /\ ~resp.panicked

====
